---- MODULE Spec2Model ----
(***************************************************************************)
(* A model of the file-ingestion pipeline of chroma_mcp/server.py:         *)
(* chunk_text, extract_archive, chroma_add_documents,                      *)
(* chroma_update_documents and chroma_add_documents_from_files.            *)
(*                                                                         *)
(* Texts are sequences of character codes.  A path is a record             *)
(* [root, name]: root is FsRoot for a path the caller names and the        *)
(* scratch directory for an extracted archive entry.  A document id        *)
(* f"{stem}_row_{i}" / f"{stem}_chunk_{i}" is the record [stem, kind, i].  *)
(***************************************************************************)
EXTENDS Integers, Sequences, FiniteSets, TLC

\* ------------------------------------------------------------------ bounds
MaxPaths == 2        \* longest file_or_dir_paths list of a request
MaxRuns == 2         \* invocations a caller makes one after the other
MaxTextLen == 4      \* longest text handed to chunk_text / streamed alone
MaxChunkSize == 3    \* largest chunk_size tried on such a text
MaxChunks == 6       \* cap on the chunks list of a chunk_text call that never ends
ExtraRows == 1       \* rows of the large CSV beyond one read batch
MaxBatch == 2        \* longest batch a client sends to a store tool directly

\* ------------------------------------------------------- program constants
BATCH_SIZE == 5000
CSV_CHUNK_ROWS == 1000
ARCHIVE_CAP == 15 * 1024 * 1024

NL == 10             \* "\n"
Letters == {97, 98}  \* "a", "b"
Chars == Letters \cup {NL}

Procs == {1, 2}      \* callers of the ingestion entry point
FsRoot == <<0, 0, 0>>

VARIABLES
    files,       \* name -> text content of the .txt/.log files on disk
    st_size,     \* name -> size in bytes of the archives on disk
    csv_rows,    \* number of data rows of d.csv
    req,         \* caller -> the arguments of its calls
    active,      \* the callers that make calls
    collection,  \* the records [id, document, metadata] of the target collection
    collCreated, \* whether the target collection exists in the store
    scratch,     \* the scratch directories that exist on disk
    inv,         \* caller -> the frame of its invocation of chroma_add_documents_from_files
    hist,        \* caller -> the outcomes of its finished invocations
    ct           \* the frame of a chunk_text call

vars == <<files, st_size, csv_rows, req, active, collection, collCreated, scratch, inv, hist, ct>>

\* ----------------------------------------------------------------- helpers
Min(a, b) == IF a < b THEN a ELSE b
Max(a, b) == IF a > b THEN a ELSE b

RECURSIVE SeqsUpTo(_, _)
SeqsUpTo(S, n) ==
    IF n = 0 THEN {<<>>}
    ELSE LET shorter == SeqsUpTo(S, n - 1)
         IN shorter \cup {Append(s, x) : s \in {t \in shorter : Len(t) = n - 1}, x \in S}

RECURSIVE Flatten(_)
Flatten(ss) == IF ss = <<>> THEN <<>> ELSE Head(ss) \o Flatten(Tail(ss))

Range(s) == {s[i] : i \in 1..Len(s)}

\* Python's s[start:end] with its treatment of negative and out-of-range indices.
PySlice(s, start, end) ==
    LET n == Len(s)
        lo == IF start < 0 THEN Max(n + start, 0) ELSE Min(start, n)
        hi == IF end < 0 THEN Max(n + end, 0) ELSE Min(end, n)
    IN IF lo >= hi THEN <<>> ELSE SubSeq(s, lo + 1, hi)

\* Python's s[-k:] for k > 0.
PyTail(s, k) == PySlice(s, -k, Len(s))

\* ------------------------------------------------------------- file system
\* What the caller may name in file_or_dir_paths.
InputNames == {"a.txt", "d.csv", "dir", "ok.zip", "big.zip", "bad.zip", "odd.gz", "nope"}

\* pathlib.Path(name).suffix
Suffix(name) ==
    CASE name \in {"a.txt", "s/e.txt"} -> ".txt"
      [] name = "dir/a.LOG" -> ".LOG"
      [] name = "d.csv" -> ".csv"
      [] name \in {"dir/x.bin", "y.bin"} -> ".bin"
      [] name \in {"ok.zip", "big.zip", "bad.zip"} -> ".zip"
      [] name = "odd.gz" -> ".gz"
      [] OTHER -> ""

\* pathlib.Path(name).stem
Stem(name) ==
    CASE name \in {"a.txt", "dir/a.LOG"} -> "a"
      [] name = "s/e.txt" -> "e"
      [] name = "d.csv" -> "d"
      [] name = "dir/x.bin" -> "x"
      [] name = "y.bin" -> "y"
      [] name = "ok.zip" -> "ok"
      [] name = "big.zip" -> "big"
      [] name = "bad.zip" -> "bad"
      [] name = "odd.gz" -> "odd"
      [] OTHER -> name

\* str.lower() on the suffixes that occur
Lower(s) == IF s = ".LOG" THEN ".log" ELSE s

IsDir(name) == name \in {"dir", "s/"}
IsFile(name) == name \notin {"dir", "s/", "nope"}

\* abs_path.rglob("*") / os.walk: what lies beneath a directory, directories included
Beneath(name) ==
    CASE name = "dir" -> <<"dir/a.LOG", "dir/x.bin">>
      [] name = "s/" -> <<"s/e.txt">>
      [] OTHER -> <<>>

\* zipfile.is_zipfile / tarfile.is_tarfile: the signature the content carries
Signature(name) == IF name \in {"ok.zip", "big.zip", "bad.zip"} THEN "zip" ELSE "none"

\* z.namelist(): the entries of an archive, directory entries included
Namelist(name) ==
    CASE name = "ok.zip" -> <<"s/", "s/e.txt", "y.bin">>
      [] name = "big.zip" -> <<"s/e.txt">>
      [] OTHER -> <<>>

\* whether extractall raises on the archive (a damaged archive)
Damaged(name) == name = "bad.zip"

ARCHIVE_SUFFIXES == {".zip", ".tar", ".gz", ".tgz", ".rar", ".7z"}
VECTORIZABLE_SUFFIXES == {".csv", ".txt", ".log"}

TextNames == {"a.txt", "dir/a.LOG", "s/e.txt"}

Path(root, name) == [root |-> root, name |-> name]

\* ---------------------------------------------------------- extract_archive
\* The result of extract_archive(archive_path, extract_dir): the files returned,
\* or the exception raised.
extract_archive(name, size, extract_dir) ==
    IF size > ARCHIVE_CAP THEN [raised |-> "OversizeArchive", files |-> <<>>]
    ELSE IF Signature(name) \in {"zip", "tar"}
            \/ Lower(Suffix(name)) \in {".rar", ".7z"}
         THEN IF Damaged(name) THEN [raised |-> "ExtractionFailed", files |-> <<>>]
              ELSE LET extracted_files == Namelist(name)
                       flat(f) == IF IsDir(f) THEN Beneath(f) ELSE <<f>>
                       all == Flatten([i \in 1..Len(extracted_files) |-> flat(extracted_files[i])])
                   IN [raised |-> "none",
                       files |-> [i \in 1..Len(all) |-> Path(extract_dir, all[i])]]
         ELSE [raised |-> "UnsupportedArchiveType", files |-> <<>>]

\* ------------------------------------------------------------------- store
\* f"{stem}_row_{i}" and f"{stem}_chunk_{i}"
RowId(stem, i) == [stem |-> stem, kind |-> "row", i |-> i]

\* ChunkId with the index left out of the id
ChunkIdNoIndex(stem, i) == [stem |-> stem, kind |-> "chunk", i |-> 0]

ChunkId(stem, i) == [stem |-> stem, kind |-> "chunk", i |-> i]

Record(id, document, file_path, key, val) ==
    [id |-> id, document |-> document,
     metadata |-> [file |-> file_path, key |-> key, val |-> val]]

\* collection.get(include=[])['ids']
Ids(coll) == {r.id : r \in coll}

BatchIds(batch) == {batch[i].id : i \in 1..Len(batch)}

\* chroma_add_documents without the check for ids the collection holds
chroma_add_documents_unchecked(coll, batch, remote_fails) ==
    IF batch = <<>> THEN [raised |-> "ValueError", collection |-> coll]
    ELSE IF remote_fails THEN [raised |-> "RemoteFailure", collection |-> coll]
    ELSE [raised |-> "none", collection |-> coll \cup Range(batch)]

\* chroma_add_documents with the records of new ids added before the duplicates
\* are reported
chroma_add_documents_partial(coll, batch, remote_fails) ==
    IF batch = <<>> THEN [raised |-> "ValueError", collection |-> coll]
    ELSE IF BatchIds(batch) \cap Ids(coll) # {}
         THEN [raised |-> "DuplicateIds",
               collection |-> coll \cup {b \in Range(batch) : b.id \notin Ids(coll)}]
    ELSE IF remote_fails THEN [raised |-> "RemoteFailure", collection |-> coll]
    ELSE [raised |-> "none", collection |-> coll \cup Range(batch)]

\* chroma_add_documents(collection_name, documents, ids, metadatas): the exception it
\* raises, if any, and the collection it leaves.  remote_fails: collection.add raises.
chroma_add_documents(coll, batch, remote_fails) ==
    IF batch = <<>> THEN [raised |-> "ValueError", collection |-> coll]
    ELSE IF BatchIds(batch) \cap Ids(coll) # {}
         THEN [raised |-> "DuplicateIds", collection |-> coll]
    ELSE IF remote_fails THEN [raised |-> "RemoteFailure", collection |-> coll]
    ELSE [raised |-> "none", collection |-> coll \cup Range(batch)]

\* chroma_update_documents(collection_name, ids, metadatas=, documents=): ids the
\* collection does not hold are ignored by the store.
chroma_update_documents(coll, created, batch, remote_fails) ==
    IF batch = <<>> THEN [raised |-> "ValueError", collection |-> coll]
    ELSE IF ~created THEN [raised |-> "GetCollectionFailed", collection |-> coll]
    ELSE IF remote_fails THEN [raised |-> "RemoteFailure", collection |-> coll]
    ELSE LET present == Ids(coll)
             ids == BatchIds(batch)
         IN [raised |-> "none",
             collection |-> {r \in coll : r.id \notin ids}
                            \cup {b \in Range(batch) : b.id \in present}]

\* One call of the store as the invocation's log keeps it.
StoreCall(op, batch, raised) == [op |-> op, batch |-> batch, raised |-> raised]

\* ---------------------------------------------------------------- chunk_text
\* The frame of chunk_text(text, chunk_size, overlap); pc is "idle", "loop",
\* "returned" or "raised".
CtIdle == [pc |-> "idle", text |-> <<>>, chunk_size |-> 1, overlap |-> 0,
           start |-> 0, chunks |-> <<>>]

\* lines 657-663: the parameter checks and the initialisation
ChunkTextEnter(text, chunk_size, overlap) ==
    [pc |-> IF chunk_size <= 0 \/ overlap < 0 THEN "raised" ELSE "loop",
     text |-> text, chunk_size |-> chunk_size, overlap |-> overlap,
     start |-> 0, chunks |-> <<>>]

\* ChunkTextIterate without the break at the end of the text
ChunkTextIterateNoBreak(c) ==
    LET text_length == Len(c.text)
        end == Min(c.start + c.chunk_size, text_length)
    IN IF ~(c.start < text_length) THEN [c EXCEPT !.pc = "returned"]
       ELSE [c EXCEPT !.chunks = Append(@, PySlice(c.text, c.start, end)),
                      !.start = end - c.overlap]

\* ChunkTextIterate with the cursor moved to the end of the piece, the overlap forgotten
ChunkTextIterateNoOverlap(c) ==
    LET text_length == Len(c.text)
        end == Min(c.start + c.chunk_size, text_length)
    IN IF ~(c.start < text_length) THEN [c EXCEPT !.pc = "returned"]
       ELSE IF end = text_length
            THEN [c EXCEPT !.chunks = Append(@, PySlice(c.text, c.start, end)),
                           !.pc = "returned"]
            ELSE [c EXCEPT !.chunks = Append(@, PySlice(c.text, c.start, end)),
                           !.start = end]

\* lines 664-670: one test of the while condition and, if it holds, one iteration
ChunkTextIterate(c) ==
    LET text_length == Len(c.text)
        end == Min(c.start + c.chunk_size, text_length)
    IN IF ~(c.start < text_length) THEN [c EXCEPT !.pc = "returned"]
       ELSE IF end = text_length
            THEN [c EXCEPT !.chunks = Append(@, PySlice(c.text, c.start, end)),
                           !.pc = "returned"]
            ELSE [c EXCEPT !.chunks = Append(@, PySlice(c.text, c.start, end)),
                           !.start = end - c.overlap]

ChunkTextCall ==
    /\ ct.pc = "idle"
    /\ \A p \in Procs : inv[p].pc \in {"idle", "done"}
    /\ ct' = ChunkTextEnter(files["a.txt"], req[1].chunk_size, req[1].overlap)
    /\ UNCHANGED <<files, st_size, csv_rows, req, active, collection, collCreated,
                   scratch, inv, hist>>

ChunkTextLoop ==
    /\ ct.pc = "loop"
    /\ Len(ct.chunks) < MaxChunks
    /\ ct' = ChunkTextIterate(ct)
    /\ UNCHANGED <<files, st_size, csv_rows, req, active, collection, collCreated,
                   scratch, inv, hist>>

\* ------------------------------------------- chroma_add_documents_from_files
\* The frame of one invocation.  pc: "idle", "discover" (the loop of lines 716-735),
\* "files" (the loop of line 742), "csv_read" (line 746), "csv_batch" (line 756),
\* "csv_add" (line 777), "csv_update" (line 780), "txt_read" (line 792),
\* "finally" (line 824), "done".  batch holds the zipped lists text_data, ids and
\* metadatas_csv; new_ and update_ the zipped new_* and update_* lists.  sniffed
\* holds the files detect_encoding was called on and decoded the pairs of a file
\* and the encoding it was opened with.
IdleFrame ==
    [pc |-> "idle", run |-> 0, path_i |-> 1, all_files |-> <<>>, temp_dirs |-> <<>>,
     total_added |-> 0, vectorizable |-> <<>>, file_i |-> 1, csv_pos |-> 0,
     batch |-> <<>>, batch_i |-> 0, existing_ids_set |-> {}, new_ |-> <<>>,
     update_ |-> <<>>, buffer |-> <<>>, chunk_idx |-> 0, fpos |-> 0,
     raised |-> "none", calls |-> <<>>, reads |-> {}, created |-> {},
     sniffed |-> {}, decoded |-> {}]

\* line 719: the path is an archive the loop tries to extract
IsArchive(name) == IsFile(name) /\ Lower(Suffix(name)) \in ARCHIVE_SUFFIXES

\* TooLarge with the cap itself rejected
TooLargeInclusive(size) == size >= ARCHIVE_CAP

\* line 720: the archive is skipped for its size
TooLarge(size) == size > ARCHIVE_CAP

\* Escapes with no except clause around extract_archive
EscapesUncaught(result) == result.raised

\* lines 725-729: the exception of extract_archive that leaves the loop (none does:
\* the except clause catches every Exception)
Escapes(result) == "none"

\* IsVectorizable with the suffix compared as it is spelled
IsVectorizableCaseSensitive(file_path) == Suffix(file_path.name) \in VECTORIZABLE_SUFFIXES

\* lines 737-738
IsVectorizable(file_path) == Lower(Suffix(file_path.name)) \in VECTORIZABLE_SUFFIXES

\* lines 716-735: the body of the discovery loop for one path, tmpdir being the
\* scratch directory tempfile.TemporaryDirectory() would hand out
DiscoverOne(f, name, size, tmpdir) ==
    IF IsArchive(name)
    THEN IF TooLarge(size) THEN f
         ELSE LET result == extract_archive(name, size, tmpdir)
              IN [f EXCEPT !.temp_dirs = Append(@, tmpdir),
                           !.created = @ \cup {tmpdir},
                           !.reads = @ \cup {name},
                           !.all_files = @ \o result.files,
                           !.raised = IF result.raised = "none" THEN "none"
                                      ELSE Escapes(result)]
    ELSE IF IsFile(name) THEN [f EXCEPT !.all_files = Append(@, Path(FsRoot, name))]
    ELSE IF IsDir(name)
         THEN LET found == SelectSeq(Beneath(name), IsFile)
              IN [f EXCEPT !.all_files = @ \o [i \in 1..Len(found) |-> Path(FsRoot, found[i])]]
    ELSE f

\* Call with the collection fetched or created before the discovery loop
CallCreatesCollection(p) ==
    /\ p \in active
    /\ inv[p].pc = "idle" \/ (inv[p].pc = "done" /\ inv[p].raised = "none")
    /\ inv[p].run < req[p].calls
    /\ ct.pc # "loop"
    /\ collCreated' = TRUE
    /\ inv' = [inv EXCEPT ![p] = [IdleFrame EXCEPT !.pc = "discover", !.run = inv[p].run + 1,
                                                  !.calls = <<StoreCall("get_or_create_collection",
                                                                        <<>>, "none")>>]]
    /\ UNCHANGED <<files, st_size, csv_rows, req, active, collection, scratch, hist, ct>>

\* The entry point is called: for the first time, or again after a call that
\* returned.
Call(p) ==
    /\ p \in active
    /\ inv[p].pc = "idle" \/ (inv[p].pc = "done" /\ inv[p].raised = "none")
    /\ inv[p].run < req[p].calls
    /\ ct.pc # "loop"
    /\ inv' = [inv EXCEPT ![p] = [IdleFrame EXCEPT !.pc = "discover", !.run = inv[p].run + 1]]
    /\ UNCHANGED <<files, st_size, csv_rows, req, active, collection, collCreated,
                   scratch, hist, ct>>

\* One iteration of the discovery loop.
DiscoverPath(p) ==
    /\ inv[p].pc = "discover"
    /\ inv[p].path_i <= Len(req[p].paths)
    /\ LET f == inv[p]
           name == req[p].paths[f.path_i]
           tmpdir == <<p, f.run, f.path_i>>
           g == DiscoverOne(f, name, st_size[name], tmpdir)
       IN /\ scratch' = scratch \cup g.created
          /\ inv' = [inv EXCEPT ![p] =
                        IF g.raised # "none" THEN [g EXCEPT !.pc = "finally"]
                        ELSE [g EXCEPT !.path_i = @ + 1]]
    /\ UNCHANGED <<files, st_size, csv_rows, req, active, collection, collCreated, hist, ct>>

\* lines 737-741: the discovery loop is over; the candidates are filtered.
Filter(p) ==
    /\ inv[p].pc = "discover"
    /\ inv[p].path_i > Len(req[p].paths)
    /\ LET vectorizable == SelectSeq(inv[p].all_files, IsVectorizable)
       IN inv' = [inv EXCEPT ![p] =
                     IF vectorizable = <<>>
                     THEN [@ EXCEPT !.raised = "NoVectorizableInput", !.pc = "finally"]
                     ELSE [@ EXCEPT !.vectorizable = vectorizable, !.file_i = 1,
                                    !.pc = "files"]]
    /\ UNCHANGED <<files, st_size, csv_rows, req, active, collection, collCreated,
                   scratch, hist, ct>>

\* line 823: the loop over the files is over; the call returns its message.
Return(p) ==
    /\ inv[p].pc = "files"
    /\ inv[p].file_i > Len(inv[p].vectorizable)
    /\ inv' = [inv EXCEPT ![p].pc = "finally"]
    /\ UNCHANGED <<files, st_size, csv_rows, req, active, collection, collCreated,
                   scratch, hist, ct>>

\* chardet.detect(raw)['encoding'] for the first bytes of a file; "None" when the
\* detection is inconclusive
chardet_detect(name) ==
    CASE name = "a.txt" -> "ascii"
      [] name = "dir/a.LOG" -> "None"
      [] OTHER -> "utf-8"

\* lines 902-906
detect_encoding(name, default) ==
    IF chardet_detect(name) = "None" THEN default ELSE chardet_detect(name)

\* line 746: pd.read_csv(file_path, chunksize=CSV_CHUNK_ROWS) is given no encoding
\* and decodes with the default of pandas
read_csv_encoding(encoding) == "utf-8"

\* lines 743-746: the next file is a .csv; pd.read_csv opens it.
OpenCsv(p) ==
    /\ inv[p].pc = "files"
    /\ inv[p].file_i <= Len(inv[p].vectorizable)
    /\ LET file_path == inv[p].vectorizable[inv[p].file_i]
       IN /\ Lower(Suffix(file_path.name)) = ".csv"
          /\ inv' = [inv EXCEPT ![p].pc = "csv_read", ![p].csv_pos = 0,
                                ![p].reads = @ \cup {file_path.name},
                                ![p].decoded = @ \cup {<<file_path.name,
                                                         read_csv_encoding(req[p].encoding)>>}]
    /\ UNCHANGED <<files, st_size, csv_rows, req, active, collection, collCreated,
                   scratch, hist, ct>>

\* lines 747-754: the text blobs, metadata and ids of one read batch whose first row
\* is row pos of the file; the blob of row k of the file is the one-symbol text <<k>>
CsvBatch(file_path, pos, n) ==
    LET text_data == [j \in 1..n |-> <<pos + j - 1>>]
    IN [j \in 1..Len(text_data) |->
           Record(RowId(Stem(file_path.name), j - 1), text_data[j], file_path, "row", j - 1)]

\* line 746: the reader yields the next CSV_CHUNK_ROWS rows, or the file is over.
CsvRead(p) ==
    /\ inv[p].pc = "csv_read"
    /\ LET f == inv[p]
           file_path == f.vectorizable[f.file_i]
           n == Min(CSV_CHUNK_ROWS, csv_rows - f.csv_pos)
       IN inv' = [inv EXCEPT ![p] =
                     IF n <= 0
                     THEN [f EXCEPT !.pc = "files", !.file_i = @ + 1, !.csv_pos = 0]
                     ELSE [f EXCEPT !.batch = CsvBatch(file_path, f.csv_pos, n),
                                    !.batch_i = 0, !.csv_pos = @ + n, !.pc = "csv_batch"]]
    /\ UNCHANGED <<files, st_size, csv_rows, req, active, collection, collCreated,
                   scratch, hist, ct>>

\* Partition with the ids of the collection ignored: every record is new
PartitionAllNew(batch, existing) == [new_ |-> batch, update_ |-> <<>>]

\* lines 766-776: the partition of a batch against the ids found in the collection
Partition(batch, existing) ==
    LET isNew(r) == r.id \notin existing
        isOld(r) == r.id \in existing
    IN [new_ |-> SelectSeq(batch, isNew), update_ |-> SelectSeq(batch, isOld)]

\* lines 756-776: the next slice of BATCH_SIZE records is cut, the ids of the
\* collection are fetched and the slice is partitioned; or the read batch is over.
CsvSnapshot(p) ==
    /\ inv[p].pc = "csv_batch"
    /\ LET f == inv[p]
       IN IF f.batch_i >= Len(f.batch)
          THEN /\ inv' = [inv EXCEPT ![p] = [f EXCEPT !.pc = "csv_read", !.batch = <<>>,
                                                      !.batch_i = 0]]
               /\ UNCHANGED collCreated
          ELSE LET slice == PySlice(f.batch, f.batch_i, f.batch_i + BATCH_SIZE)
                   existing_csv_ids_set == Ids(collection)
                   parts == Partition(slice, existing_csv_ids_set)
               IN /\ collCreated' = TRUE
                  /\ inv' = [inv EXCEPT ![p] =
                                [f EXCEPT !.existing_ids_set = existing_csv_ids_set,
                                          !.new_ = parts.new_, !.update_ = parts.update_,
                                          !.calls = @ \o <<StoreCall("get_or_create_collection", <<>>, "none"),
                                                           StoreCall("get", <<>>, "none")>>,
                                          !.pc = "csv_add"]]
    /\ UNCHANGED <<files, st_size, csv_rows, req, active, collection, scratch, hist, ct>>

\* lines 777-779
CsvAdd(p) ==
    /\ inv[p].pc = "csv_add"
    /\ LET f == inv[p]
       IN IF f.new_ = <<>>
          THEN /\ inv' = [inv EXCEPT ![p].pc = "csv_update"]
               /\ UNCHANGED collection
          ELSE \E remote_fails \in BOOLEAN :
                  LET r == chroma_add_documents(collection, f.new_, remote_fails)
                      g == [f EXCEPT !.calls = Append(@, StoreCall("add", f.new_, r.raised))]
                  IN /\ collection' = r.collection
                     /\ inv' = [inv EXCEPT ![p] =
                                   IF r.raised # "none"
                                   THEN [g EXCEPT !.raised = r.raised, !.pc = "finally"]
                                   ELSE [g EXCEPT !.total_added = @ + Len(f.new_),
                                                  !.new_ = <<>>, !.pc = "csv_update"]]
    /\ UNCHANGED <<files, st_size, csv_rows, req, active, collCreated, scratch, hist, ct>>

\* lines 780-781
CsvUpdate(p) ==
    /\ inv[p].pc = "csv_update"
    /\ LET f == inv[p]
           next == [f EXCEPT !.batch_i = @ + BATCH_SIZE, !.update_ = <<>>,
                             !.existing_ids_set = {}, !.pc = "csv_batch"]
       IN IF f.update_ = <<>>
          THEN /\ inv' = [inv EXCEPT ![p] = next]
               /\ UNCHANGED collection
          ELSE \E remote_fails \in BOOLEAN :
                  LET r == chroma_update_documents(collection, collCreated, f.update_, remote_fails)
                      call == StoreCall("update", f.update_, r.raised)
                  IN /\ collection' = r.collection
                     /\ inv' = [inv EXCEPT ![p] =
                                   IF r.raised # "none"
                                   THEN [f EXCEPT !.calls = Append(@, call),
                                                  !.raised = r.raised, !.pc = "finally"]
                                   ELSE [next EXCEPT !.calls = Append(@, call)]]
    /\ UNCHANGED <<files, st_size, csv_rows, req, active, collCreated, scratch, hist, ct>>

\* lines 784-791: the next file is a .txt or .log; its encoding is sniffed, the ids
\* of the collection are fetched once, and the file is opened.
OpenText(p) ==
    /\ inv[p].pc = "files"
    /\ inv[p].file_i <= Len(inv[p].vectorizable)
    /\ LET f == inv[p]
           file_path == f.vectorizable[f.file_i]
       IN /\ Lower(Suffix(file_path.name)) # ".csv"
          /\ collCreated' = TRUE
          /\ inv' = [inv EXCEPT ![p] =
                        [f EXCEPT !.existing_ids_set = Ids(collection),
                                  !.reads = @ \cup {file_path.name},
                                  !.sniffed = @ \cup {file_path.name},
                                  !.decoded = @ \cup {<<file_path.name,
                                                        detect_encoding(file_path.name,
                                                                        req[p].encoding)>>},
                                  !.calls = @ \o <<StoreCall("get_or_create_collection", <<>>, "none"),
                                                   StoreCall("get", <<>>, "none")>>,
                                  !.buffer = <<>>, !.chunk_idx = 0, !.fpos = 0,
                                  !.pc = "txt_read"]]
    /\ UNCHANGED <<files, st_size, csv_rows, req, active, collection, scratch, hist, ct>>

\* f.readline() at position pos of the text: up to and including the next newline,
\* or the rest of the text, or the empty string at the end
Readline(text, pos) ==
    LET ends == {i \in (pos + 1)..Len(text) : text[i] = NL}
        end == IF ends = {} THEN Len(text)
               ELSE CHOOSE i \in ends : \A j \in ends : i <= j
    IN SubSeq(text, pos + 1, end)

\* line 808: the buffer is emitted as a chunk
ChunkReady(buffer, chunk_size) == Len(buffer) >= chunk_size

\* lines 818-821: what the buffer keeps after a chunk was emitted
Carry(buffer, overlap) == IF overlap > 0 THEN PyTail(buffer, overlap) ELSE <<>>

\* StoreChunk with the ids found in the collection ignored: every chunk is inserted
StoreChunkAlwaysAdd(coll, created, existing_txt_ids_set, rec, remote_fails) ==
    LET r == chroma_add_documents(coll, <<rec>>, remote_fails)
    IN [raised |-> r.raised, collection |-> r.collection,
        added |-> IF r.raised = "none" THEN 1 ELSE 0,
        call |-> StoreCall("add", <<rec>>, r.raised)]

\* StoreChunk with an updated chunk counted as added
StoreChunkCountsUpdates(coll, created, existing_txt_ids_set, rec, remote_fails) ==
    IF rec.id \in existing_txt_ids_set
    THEN LET r == chroma_update_documents(coll, created, <<rec>>, remote_fails)
         IN [raised |-> r.raised, collection |-> r.collection,
             added |-> IF r.raised = "none" THEN 1 ELSE 0,
             call |-> StoreCall("update", <<rec>>, r.raised)]
    ELSE LET r == chroma_add_documents(coll, <<rec>>, remote_fails)
         IN [raised |-> r.raised, collection |-> r.collection,
             added |-> IF r.raised = "none" THEN 1 ELSE 0,
             call |-> StoreCall("add", <<rec>>, r.raised)]

\* StoreChunk with the exception of the store caught and dropped
StoreChunkSwallow(coll, created, existing_txt_ids_set, rec, remote_fails) ==
    IF rec.id \in existing_txt_ids_set
    THEN LET r == chroma_update_documents(coll, created, <<rec>>, remote_fails)
         IN [raised |-> "none", collection |-> r.collection, added |-> 0,
             call |-> StoreCall("update", <<rec>>, r.raised)]
    ELSE LET r == chroma_add_documents(coll, <<rec>>, remote_fails)
         IN [raised |-> "none", collection |-> r.collection,
             added |-> IF r.raised = "none" THEN 1 ELSE 0,
             call |-> StoreCall("add", <<rec>>, r.raised)]

\* lines 797-805 and 809-817: one chunk goes to the store, as an update if its id was
\* in the collection when the file was opened and as an insert otherwise
StoreChunk(coll, created, existing_txt_ids_set, rec, remote_fails) ==
    IF rec.id \in existing_txt_ids_set
    THEN LET r == chroma_update_documents(coll, created, <<rec>>, remote_fails)
         IN [raised |-> r.raised, collection |-> r.collection, added |-> 0,
             call |-> StoreCall("update", <<rec>>, r.raised)]
    ELSE LET r == chroma_add_documents(coll, <<rec>>, remote_fails)
         IN [raised |-> r.raised, collection |-> r.collection,
             added |-> IF r.raised = "none" THEN 1 ELSE 0,
             call |-> StoreCall("add", <<rec>>, r.raised)]

\* lines 792-822: one iteration of the read loop
TxtReadLine(p) ==
    /\ inv[p].pc = "txt_read"
    /\ \E remote_fails \in BOOLEAN :
          LET f == inv[p]
              file_path == f.vectorizable[f.file_i]
              line == Readline(files[file_path.name], f.fpos)
              buffer == f.buffer \o line
              emit == IF line = <<>> THEN f.buffer # <<>>
                      ELSE ChunkReady(buffer, req[p].chunk_size)
              rec == Record(ChunkId(Stem(file_path.name), f.chunk_idx), buffer, file_path,
                            "chunk_index", f.chunk_idx)
              s == StoreChunk(collection, collCreated, f.existing_ids_set, rec, remote_fails)
              g == IF emit THEN [f EXCEPT !.calls = Append(@, s.call),
                                          !.total_added = @ + s.added]
                   ELSE f
          IN /\ collection' = IF emit THEN s.collection ELSE collection
             /\ inv' = [inv EXCEPT ![p] =
                           IF emit /\ s.raised # "none"
                           THEN [g EXCEPT !.raised = s.raised, !.pc = "finally"]
                           ELSE IF line = <<>>
                           THEN [g EXCEPT !.pc = "files", !.file_i = @ + 1, !.buffer = <<>>,
                                          !.chunk_idx = 0, !.fpos = 0,
                                          !.existing_ids_set = {}]
                           ELSE [g EXCEPT !.fpos = @ + Len(line),
                                          !.buffer = IF emit THEN Carry(buffer, req[p].overlap)
                                                     ELSE buffer,
                                          !.chunk_idx = IF emit THEN @ + 1 ELSE @]]
    /\ UNCHANGED <<files, st_size, csv_rows, req, active, collCreated, scratch, hist, ct>>

\* Released with the cleanup done only when the call returns
ReleasedOnReturn(f) == IF f.raised = "none" THEN Range(f.temp_dirs) ELSE {}

\* lines 825-826: the scratch directories the finally clause cleans up
Released(f) == Range(f.temp_dirs)

\* lines 824-826: the finally clause runs and the call returns or raises.
Finally(p) ==
    /\ inv[p].pc = "finally"
    /\ scratch' = scratch \ Released(inv[p])
    /\ inv' = [inv EXCEPT ![p].pc = "done"]
    /\ hist' = [hist EXCEPT ![p] = Append(@, [raised |-> inv[p].raised,
                                              total_added |-> inv[p].total_added,
                                              ids |-> Ids(collection),
                                              count |-> Cardinality(collection)])]
    /\ UNCHANGED <<files, st_size, csv_rows, req, active, collection, collCreated, ct>>

\* ------------------------------------------------------------ specifications
\* The texts on disk in the specification of the whole pipeline.
DiskTexts ==
    [name \in TextNames |->
        CASE name = "a.txt" -> <<97, 98, NL, 98, NL, 97>>
          [] name = "dir/a.LOG" -> <<98, NL>>
          [] OTHER -> <<97, 97, 97>>]

AllNames == InputNames \cup {"dir/a.LOG", "dir/x.bin", "s/", "s/e.txt", "y.bin"}

\* os.stat(name).st_size: ok.zip is exactly as large as the cap, big.zip one byte larger
DiskSizes ==
    [name \in AllNames |->
        CASE name = "ok.zip" -> ARCHIVE_CAP
          [] name = "big.zip" -> ARCHIVE_CAP + 1
          [] OTHER -> 100]

\* The text files a path list leads to.
RECURSIVE Reaches(_, _)
Reaches(name, wanted) ==
    \/ name \in wanted
    \/ \E i \in 1..Len(Beneath(name)) : Reaches(Beneath(name)[i], wanted)
    \/ \E i \in 1..Len(Namelist(name)) : Reaches(Namelist(name)[i], wanted)

ChunkParams == {<<2, 1>>, <<3, 0>>, <<0, 0>>, <<2, -1>>}
CsvRowChoices == {0, 2, CSV_CHUNK_ROWS + ExtraRows}

\* The arguments of a call that leaves the encoding at its default (line 693), and
\* how often the caller makes the call.
Request(paths, chunk_size, overlap, calls) ==
    [paths |-> paths, chunk_size |-> chunk_size, overlap |-> overlap, calls |-> calls,
     encoding |-> "utf-8"]

NoRequest == Request(<<>>, 1, 0, 0)

\* One caller, any list of at most MaxPaths paths.  What the request cannot see
\* (the rows of a CSV it does not name, the chunk parameters when it names no text)
\* is held at one value, and the CSV larger than a read batch is tried with one pair
\* of chunk parameters (the CSV path reads neither).
Init ==
    /\ files = DiskTexts
    /\ active = {1}
    /\ \E paths \in SeqsUpTo(InputNames, MaxPaths), cp \in ChunkParams :
          /\ (\A i \in 1..Len(paths) : ~Reaches(paths[i], TextNames)) => cp = <<2, 1>>
          /\ req = [p \in Procs |-> IF p = 1 THEN Request(paths, cp[1], cp[2], MaxRuns)
                                    ELSE NoRequest]
    /\ st_size = DiskSizes
    /\ csv_rows \in CsvRowChoices
    /\ "d.csv" \notin Range(req[1].paths) => csv_rows = 0
    /\ csv_rows > CSV_CHUNK_ROWS => req[1].chunk_size = 2 /\ req[1].overlap = 1
    /\ collection = {}
    /\ collCreated = FALSE
    /\ scratch = {}
    /\ inv = [p \in Procs |-> IdleFrame]
    /\ hist = [p \in Procs |-> <<>>]
    /\ ct = CtIdle

Next ==
    \E p \in Procs :
        \/ Call(p)
        \/ DiscoverPath(p)
        \/ Filter(p)
        \/ Return(p)
        \/ OpenCsv(p)
        \/ CsvRead(p)
        \/ CsvSnapshot(p)
        \/ CsvAdd(p)
        \/ CsvUpdate(p)
        \/ OpenText(p)
        \/ TxtReadLine(p)
        \/ Finally(p)

Spec == Init /\ [][Next]_vars

\* "abcdefghij", and the two calls of chunk_text on it with pieces of four characters
ExampleText == <<97, 98, 99, 100, 101, 102, 103, 104, 105, 106>>
WorkedExamples == {<<ExampleText, 4, 1>>, <<ExampleText, 4, 0>>}

\* The texts and parameters (text, chunk_size, overlap) chunk_text is tried on.
ChunkCases ==
    {<<text, chunk_size, overlap>> :
        text \in SeqsUpTo(Chars, MaxTextLen),
        chunk_size \in 0..MaxChunkSize, overlap \in (-1)..MaxChunkSize}
    \cup WorkedExamples

\* chunk_text and the streaming of one text file, on the same text and the same
\* parameters: a.txt holds any text of at most MaxTextLen characters or the example
\* text, and the caller ingests it once.
InitChunk ==
    /\ active = {1}
    /\ \E c \in ChunkCases :
          /\ files = [DiskTexts EXCEPT !["a.txt"] = c[1]]
          /\ req = [p \in Procs |-> IF p = 1 THEN Request(<<"a.txt">>, c[2], c[3], 1)
                                    ELSE NoRequest]
    /\ st_size = DiskSizes
    /\ csv_rows = 0
    /\ collection = {}
    /\ collCreated = FALSE
    /\ scratch = {}
    /\ inv = [p \in Procs |-> IdleFrame]
    /\ hist = [p \in Procs |-> <<>>]
    /\ ct = CtIdle

NextChunk ==
    \/ ChunkTextCall
    \/ ChunkTextLoop
    \/ \E p \in Procs :
          \/ Call(p)
          \/ DiscoverPath(p)
          \/ Filter(p)
          \/ Return(p)
          \/ OpenText(p)
          \/ TxtReadLine(p)
          \/ Finally(p)

SpecChunk == InitChunk /\ [][NextChunk]_vars

\* The two store tools called directly by a client, outside an ingestion: the
\* records a client may send, and the batches of at most MaxBatch of them with
\* distinct ids.
ToolIds == {ChunkId("a", 0), ChunkId("a", 1), ChunkId("e", 0)}

ToolRecords ==
    {Record(id, <<c>>, Path(FsRoot, "a.txt"), "chunk_index", id.i) :
        id \in ToolIds, c \in Letters}

ToolBatches ==
    {b \in SeqsUpTo(ToolRecords, MaxBatch) :
        \A i, j \in 1..Len(b) : b[i].id = b[j].id => i = j}

\* lines 347-410: a client calls chroma_add_documents; the log of the caller keeps
\* the call.
ToolAdd(p) ==
    /\ p \in active
    /\ inv[p].pc = "idle"
    /\ \E batch \in ToolBatches, remote_fails \in BOOLEAN :
          LET r == chroma_add_documents(collection, batch, remote_fails)
          IN /\ collection' = r.collection
             /\ collCreated' = (collCreated \/ batch # <<>>)
             /\ inv' = [inv EXCEPT ![p].calls = <<StoreCall("add", batch, r.raised)>>]
    /\ UNCHANGED <<files, st_size, csv_rows, req, active, scratch, hist, ct>>

\* lines 501-575: a client calls chroma_update_documents.
ToolUpdate(p) ==
    /\ p \in active
    /\ inv[p].pc = "idle"
    /\ \E batch \in ToolBatches, remote_fails \in BOOLEAN :
          LET r == chroma_update_documents(collection, collCreated, batch, remote_fails)
          IN /\ collection' = r.collection
             /\ inv' = [inv EXCEPT ![p].calls = <<StoreCall("update", batch, r.raised)>>]
    /\ UNCHANGED <<files, st_size, csv_rows, req, active, collCreated, scratch, hist, ct>>

InitTools ==
    /\ files = DiskTexts
    /\ active = {1}
    /\ req = [p \in Procs |-> NoRequest]
    /\ st_size = DiskSizes
    /\ csv_rows = 0
    /\ collection = {}
    /\ collCreated = FALSE
    /\ scratch = {}
    /\ inv = [p \in Procs |-> IdleFrame]
    /\ hist = [p \in Procs |-> <<>>]
    /\ ct = CtIdle

NextTools == \E p \in Procs : ToolAdd(p) \/ ToolUpdate(p)

SpecTools == InitTools /\ [][NextTools]_vars

\* Calls that name an encoding: any list of at most MaxPaths of a text file chardet
\* recognises, a directory with one it does not, and a small CSV.
Encodings == {"utf-8", "latin-1"}

InitEnc ==
    /\ files = DiskTexts
    /\ active = {1}
    /\ \E paths \in SeqsUpTo({"a.txt", "dir", "d.csv"}, MaxPaths), encoding \in Encodings :
          req = [p \in Procs |->
                    IF p = 1 THEN [Request(paths, 2, 1, 1) EXCEPT !.encoding = encoding]
                    ELSE NoRequest]
    /\ st_size = DiskSizes
    /\ csv_rows = 2
    /\ collection = {}
    /\ collCreated = FALSE
    /\ scratch = {}
    /\ inv = [p \in Procs |-> IdleFrame]
    /\ hist = [p \in Procs |-> <<>>]
    /\ ct = CtIdle

SpecEnc == InitEnc /\ [][Next]_vars

\* Two callers ingest into the same collection at the same time, each one path: the
\* same text file, the directory whose text file has the same stem, or the CSV.
InitConc ==
    /\ files = DiskTexts
    /\ active = Procs
    /\ \E names \in [Procs -> {"a.txt", "dir", "d.csv"}] :
          req = [p \in Procs |-> Request(<<names[p]>>, 2, 1, 1)]
    /\ st_size = DiskSizes
    /\ csv_rows = 2
    /\ collection = {}
    /\ collCreated = FALSE
    /\ scratch = {}
    /\ inv = [p \in Procs |-> IdleFrame]
    /\ hist = [p \in Procs |-> <<>>]
    /\ ct = CtIdle

SpecConc == InitConc /\ [][Next]_vars

\* The steps of an invocation that is under way: a call that has started runs to its
\* end (the pipeline is sequential and every loop of it is over a finite input).
Step(p) ==
    \/ DiscoverPath(p)
    \/ Filter(p)
    \/ Return(p)
    \/ OpenCsv(p)
    \/ CsvRead(p)
    \/ CsvSnapshot(p)
    \/ CsvAdd(p)
    \/ CsvUpdate(p)
    \/ OpenText(p)
    \/ TxtReadLine(p)
    \/ Finally(p)

\* The pipeline with its scheduling stated; the CSV on disk is a small one and the
\* chunk parameters are one pair (they change how often the read loops turn, not
\* which paths leave them).
FairInit == Init /\ csv_rows <= CSV_CHUNK_ROWS /\ req[1].chunk_size = 2 /\ req[1].overlap = 1

FairSpec == FairInit /\ [][Next]_vars /\ \A p \in Procs : WF_vars(Step(p))

\* ------------------------------------------------------------------- claims
\* The add and update calls of an invocation, in the order they were made.
Writes(f) ==
    LET isWrite(c) == c.op \in {"add", "update"}
    IN SelectSeq(f.calls, isWrite)

\* The records an invocation sent to the store, in order.
RECURSIVE Sent(_)
Sent(writes) == IF writes = <<>> THEN <<>> ELSE Head(writes).batch \o Sent(Tail(writes))

ValidParams(chunk_size, overlap) == chunk_size > 0 /\ 0 <= overlap /\ overlap < chunk_size

\* The first piece followed by every later piece without its leading overlap characters.
Reassemble(chunks, overlap) ==
    IF chunks = <<>> THEN <<>>
    ELSE Head(chunks)
         \o Flatten([i \in 1..(Len(chunks) - 1) |->
                        SubSeq(chunks[i + 1], overlap + 1, Len(chunks[i + 1]))])

\* The index at which the last piece ends, piece k starting at (k-1)*(size-overlap).
LastEnd(chunks, chunk_size, overlap) ==
    (Len(chunks) - 1) * (chunk_size - overlap) + Len(chunks[Len(chunks)])

ChunkTextReturnedValid ==
    ct.pc = "returned" /\ ValidParams(ct.chunk_size, ct.overlap)

\* C2 as stated: for every text, the empty one included, and size > 0,
\* 0 <= overlap < size, chunk_text returns a non-empty sequence that reassembles to the
\* text and whose last piece ends at the length of the text.
C2_Original ==
    ChunkTextReturnedValid =>
        /\ ct.chunks # <<>>
        /\ Reassemble(ct.chunks, ct.overlap) = ct.text
        /\ LastEnd(ct.chunks, ct.chunk_size, ct.overlap) = Len(ct.text)

\* C2 amended: for every non-empty text and size > 0, 0 <= overlap < size, chunk_text
\* returns a non-empty sequence that reassembles to the text and whose last piece
\* ends at the length of the text; for the empty text it returns no piece at all.
C2_ChunkReassembles ==
    ChunkTextReturnedValid =>
        /\ Reassemble(ct.chunks, ct.overlap) = ct.text
        /\ IF ct.text = <<>> THEN ct.chunks = <<>>
           ELSE /\ ct.chunks # <<>>
                /\ LastEnd(ct.chunks, ct.chunk_size, ct.overlap) = Len(ct.text)

C2_Witness ==
    /\ ChunkTextReturnedValid
    /\ ct.overlap >= 1
    /\ Len(ct.chunks) >= 3
    /\ \E i, j \in 1..Len(ct.text) : ct.text[i] # ct.text[j]

\* The text file of SpecChunk was ingested without an error and chunk_text has
\* returned on its content with the same parameters.
StreamedAndChunked ==
    /\ inv[1].pc = "done"
    /\ inv[1].raised = "none"
    /\ ChunkTextReturnedValid

\* C5: the documents the text path sends for a file are, in order, the pieces
\* chunk_text returns for the content of the file, record i carrying piece i.
C5_StreamEqualsChunker ==
    StreamedAndChunked =>
        LET sent == Sent(Writes(inv[1]))
        IN /\ Len(sent) = Len(ct.chunks)
           /\ \A i \in 1..Len(sent) :
                 /\ sent[i].document = ct.chunks[i]
                 /\ sent[i].id.i = i - 1

\* C6: no document sent for a .txt/.log file is longer than chunk_size (stated for
\* the calls whose overlap is within 0 <= overlap < chunk_size, the case every
\* reading of the claim covers).
C6_ChunkSizeBound ==
    \A p \in active :
        ValidParams(req[p].chunk_size, req[p].overlap) =>
            \A i \in 1..Len(Sent(Writes(inv[p]))) :
                LET r == Sent(Writes(inv[p]))[i]
                IN r.id.kind = "chunk" => Len(r.document) <= req[p].chunk_size

\* The extension of a file is one the pipeline ingests (compared as the code
\* compares it, without regard to case).
Eligible(name) ==
    \/ Lower(Suffix(name)) = ".csv"
    \/ Lower(Suffix(name)) = ".txt"
    \/ Lower(Suffix(name)) = ".log"

\* The invocation of caller p has left the discovery loop without an exception there.
Discovered(p) == inv[p].pc \in {"files", "csv_read", "csv_batch", "csv_add", "csv_update",
                                "txt_read"}
                 \/ (inv[p].pc \in {"finally", "done"}
                     /\ inv[p].path_i > Len(req[p].paths))

\* C7: the call fails with NoVectorizableInput exactly when discovery ended with no
\* candidate of extension .csv, .txt or .log; and a candidate of another extension
\* is never read, never the source of a record sent to the store, and never the
\* cause of a failure.
C7_NoVectorizableInput ==
    \A p \in active :
        LET f == inv[p]
            candidates == {f.all_files[i].name : i \in 1..Len(f.all_files)}
            sent == Sent(Writes(f))
        IN /\ Discovered(p) /\ f.pc \in {"finally", "done"}
              => (f.raised = "NoVectorizableInput"
                    <=> \A name \in candidates : ~Eligible(name))
           /\ f.raised = "NoVectorizableInput" => Discovered(p) /\ f.calls = <<>>
           /\ \A i \in 1..Len(sent) : Eligible(sent[i].metadata.file.name)
           /\ \A name \in f.reads : Eligible(name) \/ IsArchive(name)
           /\ f.raised \in {"none", "NoVectorizableInput", "RemoteFailure"}

C7_Witness ==
    /\ inv[1].pc = "done"
    /\ inv[1].raised = "none"
    /\ \E i, j \in 1..Len(inv[1].all_files) :
          /\ Suffix(inv[1].all_files[i].name) = ".bin"
          /\ Suffix(inv[1].all_files[j].name) = ".LOG"
    /\ Sent(Writes(inv[1])) # <<>>

\* C4: a CSV of N rows ingested alone into the empty collection leaves exactly N
\* records, one per row k = 0..N-1 of the file, with id {stem}_row_k, metadata row k
\* and the text of row k.
C4_CsvRowIds ==
    \A p \in active :
        (/\ inv[p].pc = "done"
         /\ inv[p].run = 1
         /\ inv[p].raised = "none"
         /\ req[p].paths = <<"d.csv">>)
        => /\ Cardinality(collection) = csv_rows
           /\ Ids(collection) = {RowId("d", k) : k \in 0..(csv_rows - 1)}
           /\ \A r \in collection : r.metadata.val = r.id.i /\ r.document = <<r.id.i>>

\* C9: a call with chunk_size <= 0 or overlap < 0 ends with InvalidChunkParameters
\* and, before that, reads no input, creates no scratch directory and calls the
\* store for nothing.
C9_InvalidParamsRejected ==
    \A p \in active :
        (req[p].chunk_size <= 0 \/ req[p].overlap < 0) =>
            /\ inv[p].calls = <<>>
            /\ inv[p].reads = {}
            /\ inv[p].created = {}
            /\ inv[p].pc = "done" => inv[p].raised = "InvalidChunkParameters"

\* The scratch directory of the i-th path of the running invocation of caller p.
TmpOf(p, i) == <<p, inv[p].run, i>>

BadArchive(name) ==
    /\ IsArchive(name)
    /\ \/ st_size[name] > ARCHIVE_CAP
       \/ Signature(name) = "none" /\ Lower(Suffix(name)) \notin {".rar", ".7z"}
       \/ Damaged(name)

\* The discovery loop run over a path list from frame f on.
RECURSIVE DiscoverAll(_, _, _)
DiscoverAll(f, paths, i) ==
    IF i > Len(paths) \/ f.raised # "none" THEN f
    ELSE DiscoverAll(DiscoverOne(f, paths[i], st_size[paths[i]], <<0, 0, i>>), paths, i + 1)

FileNames(all_files) == [i \in 1..Len(all_files) |-> all_files[i].name]

\* C10: a too large, unsupported or damaged archive in the list does not end the
\* call, and the candidates discovery hands on are those it finds for the list
\* without that archive, in the same order.
C10_BadArchiveSkipped ==
    \A p \in active :
        LET f == inv[p]
            isGood(name) == ~BadArchive(name)
            others == SelectSeq(req[p].paths, isGood)
        IN /\ f.raised \notin {"OversizeArchive", "UnsupportedArchiveType", "ExtractionFailed"}
           /\ f.pc \in {"finally", "done"} /\ f.calls = <<>>
                 => Discovered(p)
           /\ Discovered(p) =>
                 FileNames(f.all_files) = FileNames(DiscoverAll(IdleFrame, others, 1).all_files)

C10_Witness ==
    /\ inv[1].pc = "done"
    /\ inv[1].raised = "none"
    /\ \E i, j \in 1..Len(req[1].paths) :
          /\ BadArchive(req[1].paths[i])
          /\ ~BadArchive(req[1].paths[j])
    /\ Sent(Writes(inv[1])) # <<>>

\* C3: an invocation that has started reaches the finally clause, and once it has
\* returned or raised none of the scratch directories it created exists.
C3_CleanupAlways ==
    /\ \A p \in Procs :
          (inv[p].pc \notin {"idle", "finally", "done"}) ~> (inv[p].pc = "finally")
    /\ [](\A p \in Procs : inv[p].pc = "done" => inv[p].created \cap scratch = {})

C3_Witness ==
    /\ inv[1].pc = "done"
    /\ inv[1].raised = "RemoteFailure"
    /\ Cardinality(inv[1].created) = 2
    /\ scratch = {}

\* C1: when a call succeeded and the same call is made again (same files, same
\* parameters, no other writer), the second call succeeds unless the store fails
\* remotely, adds nothing, sends every record to update, and leaves the ids and the
\* record count of the collection as the first call left them.
C1_ReingestIdempotent ==
    \A p \in active :
        LET f == inv[p]
        IN (/\ f.pc = "done"
            /\ f.run = 2
            /\ hist[p][1].raised = "none"
            /\ f.raised # "RemoteFailure")
           => /\ f.raised = "none"
              /\ f.total_added = 0
              /\ \A i \in 1..Len(f.calls) : f.calls[i].op # "add"
              /\ Ids(collection) = hist[p][1].ids
              /\ Cardinality(collection) = hist[p][1].count

C1_Witness ==
    /\ inv[1].pc = "done"
    /\ inv[1].run = 2
    /\ hist[1][1].raised = "none"
    /\ inv[1].raised = "none"
    /\ Len(req[1].paths) = 1
    /\ req[1].paths[1] \in {"a.txt", "d.csv"}
    /\ Len(Sent(Writes(inv[1]))) >= 2

\* The store call the step appends to the log of caller p, if it appends one to
\* the log of the invocation under way.
Appends(p) == /\ inv'[p].run = inv[p].run
              /\ Len(inv'[p].calls) = Len(inv[p].calls) + 1

LastCall(f) == f.calls[Len(f.calls)]

\* The rows the CSV files of the candidate list hold, all files together.
CsvRowsProduced(f) ==
    LET isCsv(file_path) == Lower(Suffix(file_path.name)) = ".csv"
    IN Len(SelectSeq(f.vectorizable, isCsv)) * csv_rows

\* C11: with one caller and no other writer, the records of a CSV slice go each to
\* exactly one of the insert list and the update list, every row of a CSV ingested
\* without an error was sent once, a chunk goes to one call of one record, and at
\* the moment of each call an insert carries only ids the collection does not hold
\* and an update only ids it holds.
C11_RoutingMatchesStore ==
    /\ [](\A p \in active :
            LET f == inv[p]
                isRow(r) == r.id.kind = "row"
            IN /\ f.pc = "csv_add" =>
                    LET slice == PySlice(f.batch, f.batch_i, f.batch_i + BATCH_SIZE)
                    IN /\ Len(f.new_) + Len(f.update_) = Len(slice)
                       /\ Range(f.new_) \cup Range(f.update_) = Range(slice)
                       /\ BatchIds(f.new_) \cap BatchIds(f.update_) = {}
               /\ f.pc = "done" /\ f.raised = "none" =>
                    Len(SelectSeq(Sent(Writes(f)), isRow)) = CsvRowsProduced(f))
    /\ [][\A p \in active :
            Appends(p) /\ LastCall(inv'[p]).op \in {"add", "update"} =>
                LET c == LastCall(inv'[p])
                IN /\ c.op = "add" => BatchIds(c.batch) \cap Ids(collection) = {}
                   /\ c.op = "update" => BatchIds(c.batch) \subseteq Ids(collection)
                   /\ inv[p].pc = "txt_read" => Len(c.batch) = 1
                   /\ c.raised \in {"none", "RemoteFailure"}]_vars

C11_Witness ==
    /\ inv[1].pc = "done"
    /\ inv[1].raised = "none"
    /\ req[1].paths = <<"a.txt", "dir">>
    /\ ValidParams(req[1].chunk_size, req[1].overlap)
    /\ \E i, j \in 1..Len(inv[1].calls) :
          /\ inv[1].calls[i].op = "add"
          /\ inv[1].calls[j].op = "update"
          /\ i < j

\* C12: chunk_text ends for every text and every size and overlap: a call with
\* overlap >= size is rejected rather than run, and a call that runs makes no more
\* pieces than the text has characters (each piece moves the cursor forward).
C12_ChunkTextTerminates ==
    /\ ct.pc # "idle" /\ ct.overlap >= ct.chunk_size => ct.pc = "raised"
    /\ Len(ct.chunks) <= Max(Len(ct.text), 1)

\* The ids the successful writes after write i carry.
LaterIds(w, i) ==
    UNION {BatchIds(w[j].batch) : j \in {k \in (i + 1)..Len(w) : w[k].raised = "none"}}

\* The records the successful writes of an invocation left in the store: those of
\* write i whose id no later successful write of the invocation carries.
Committed(f) ==
    LET w == Writes(f)
        ok == {i \in 1..Len(w) : w[i].raised = "none"}
    IN UNION {LET after == LaterIds(w, i)
              IN {r \in Range(w[i].batch) : r.id \notin after} : i \in ok}

\* C13: a store call that fails remotely is the last call of its invocation: the
\* invocation goes to its finally clause and raises that failure instead of
\* returning a count, nothing of a later file was sent, and what the earlier
\* successful calls wrote is still in the collection.
C13_RemoteFailureFatal ==
    \A p \in active :
        LET f == inv[p]
            n == Len(f.calls)
        IN /\ \A i \in 1..(n - 1) : f.calls[i].raised = "none"
           /\ n > 0 /\ f.calls[n].raised # "none" =>
                 /\ f.pc \in {"finally", "done"}
                 /\ f.raised = f.calls[n].raised
           /\ f.raised = "RemoteFailure" =>
                 /\ n > 0 /\ f.calls[n].raised = "RemoteFailure"
                 /\ f.calls[n].op \in {"add", "update"}
                 /\ f.file_i <= Len(f.vectorizable)
                 /\ \A i \in 1..n : \A k \in 1..Len(f.calls[i].batch) :
                       \E j \in 1..f.file_i :
                           f.calls[i].batch[k].metadata.file = f.vectorizable[j]
                 /\ LET w == Writes(f)
                    IN \A i \in 1..Len(w) :
                          w[i].raised = "none" =>
                              LET after == LaterIds(w, i)
                              IN \A k \in 1..Len(w[i].batch) :
                                    \/ w[i].batch[k] \in collection
                                    \/ w[i].batch[k].id \in after
                 /\ f.pc = "done" => hist[p][f.run].raised = "RemoteFailure"

C13_Witness ==
    /\ inv[1].pc = "done"
    /\ inv[1].raised = "RemoteFailure"
    /\ inv[1].run = 1
    /\ inv[1].total_added >= 1
    /\ inv[1].file_i < Len(inv[1].vectorizable)
    /\ Committed(inv[1]) # {}
    /\ Cardinality(collection) = inv[1].total_added

\* C14: a call of chroma_add_documents in which at least one id is already in the
\* collection fails, and a call of it that fails leaves the collection, its ids and
\* its documents, as it was.
C14_AddAllOrNothing ==
    [][\A p \in active :
          inv[p].pc = "idle" /\ inv'[p].pc = "idle" /\ inv'[p].calls # <<>>
          /\ LastCall(inv'[p]).op = "add" =>
              LET c == LastCall(inv'[p])
              IN /\ BatchIds(c.batch) \cap Ids(collection) # {} => c.raised # "none"
                 /\ c.raised # "none" => collection' = collection
                 /\ c.raised = "none" =>
                       /\ Ids(collection') = Ids(collection) \cup BatchIds(c.batch)
                       /\ collection \subseteq collection']_vars

C14_Witness ==
    /\ inv[1].pc = "idle"
    /\ inv[1].calls # <<>>
    /\ LET c == LastCall(inv[1])
       IN /\ c.op = "add"
          /\ c.raised = "DuplicateIds"
          /\ \E i, j \in 1..Len(c.batch) :
                /\ c.batch[i].id \in Ids(collection)
                /\ c.batch[i] \notin collection
                /\ c.batch[j].id \notin Ids(collection)

\* The call is an add or update of one chunk of a text file.
IsChunkCall(c) ==
    /\ c.op \in {"add", "update"}
    /\ Len(c.batch) = 1
    /\ c.batch[1].id.kind = "chunk"

\* C15: the store calls of one pass over a .txt/.log file carry the chunk indices
\* 0, 1, 2, ... in this order, one call per index, the id of chunk i being
\* {stem}_chunk_i and its metadata chunk_index i; and every store call is for the
\* file the loop over the candidates is at, which only moves forward, so that the
\* calls of one file are all made before the first call of the next.
C15_ChunkOrder ==
    /\ [](\A p \in active :
            LET calls == inv[p].calls
            IN \A n \in 1..Len(calls) :
                  IsChunkCall(calls[n]) =>
                      LET r == calls[n].batch[1]
                      IN /\ r.id = [stem |-> Stem(r.metadata.file.name), kind |-> "chunk",
                                    i |-> r.metadata.val]
                         /\ r.metadata.key = "chunk_index"
                         /\ n > 1
                         /\ IF r.id.i = 0 THEN calls[n - 1].op = "get"
                            ELSE /\ IsChunkCall(calls[n - 1])
                                 /\ calls[n - 1].batch[1].metadata.file = r.metadata.file
                                 /\ calls[n - 1].batch[1].id.i = r.id.i - 1)
    /\ [][\A p \in active :
            inv'[p].run = inv[p].run =>
                /\ inv'[p].file_i >= inv[p].file_i
                /\ Appends(p) /\ LastCall(inv'[p]).op \in {"add", "update"} =>
                      \A r \in Range(LastCall(inv'[p]).batch) :
                          r.metadata.file = inv[p].vectorizable[inv[p].file_i]]_vars

C15_Witness ==
    /\ inv[1].pc = "done"
    /\ inv[1].raised = "none"
    /\ req[1].paths = <<"dir", "a.txt">>
    /\ ValidParams(req[1].chunk_size, req[1].overlap)
    /\ LET sent == Sent(Writes(inv[1]))
       IN /\ Len(sent) >= 3
          /\ sent[1].metadata.file.name = "dir/a.LOG"
          /\ sent[2].metadata.file.name = "a.txt"
          /\ sent[3].id.i = 1

\* C16: for a non-empty text and size > 0, 0 <= overlap < size, the k-th piece of
\* chunk_text (k from 0) is the text from k*(size-overlap) to
\* min(k*(size-overlap)+size, L), no piece is longer than size, no piece but the
\* last ends at L and the last one does; "abcdefghij" gives abcd, defg, ghij with
\* size 4 and overlap 1 and abcd, efgh, ij with size 4 and overlap 0.
C16_PiecePositions ==
    (/\ ct.pc \in {"loop", "returned"}
     /\ ValidParams(ct.chunk_size, ct.overlap)
     /\ ct.text # <<>>)
    => LET L == Len(ct.text)
           n == Len(ct.chunks)
           from(k) == k * (ct.chunk_size - ct.overlap)
           to(k) == Min(from(k) + ct.chunk_size, L)
       IN /\ \A k \in 0..(n - 1) :
                /\ ct.chunks[k + 1] = SubSeq(ct.text, from(k) + 1, to(k))
                /\ Len(ct.chunks[k + 1]) <= ct.chunk_size
                /\ k < n - 1 => to(k) < L
          /\ ct.pc = "returned" =>
                /\ n >= 1
                /\ to(n - 1) = L
                /\ ct.text = ExampleText /\ ct.chunk_size = 4 /\ ct.overlap = 1 =>
                      ct.chunks = << <<97, 98, 99, 100>>, <<100, 101, 102, 103>>,
                                     <<103, 104, 105, 106>> >>
                /\ ct.text = ExampleText /\ ct.chunk_size = 4 /\ ct.overlap = 0 =>
                      ct.chunks = << <<97, 98, 99, 100>>, <<101, 102, 103, 104>>,
                                     <<105, 106>> >>

C16_Witness ==
    /\ ct.pc = "returned"
    /\ ct.text = ExampleText
    /\ ct.chunk_size = 4
    /\ ct.overlap = 1
    /\ Len(ct.chunks) = 3

\* C17: a .csv file is decoded with the encoding the caller gave and the sniffer is
\* not consulted for it; a .txt/.log file is decoded with the encoding the sniffer
\* found or, when it found none, with the one the caller gave.
C17_EncodingChoice ==
    \A p \in active :
        \A d \in inv[p].decoded :
            LET name == d[1]
                found == chardet_detect(name)
            IN IF Lower(Suffix(name)) = ".csv"
               THEN d[2] = req[p].encoding /\ name \notin inv[p].sniffed
               ELSE /\ name \in inv[p].sniffed
                    /\ d[2] = IF found = "None" THEN req[p].encoding ELSE found

Inserted(f) ==
    UNION {BatchIds(f.calls[i].batch) :
              i \in {k \in 1..Len(f.calls) : /\ f.calls[k].op = "add"
                                             /\ f.calls[k].raised = "none"}}

IdsAtStart(p) == IF inv[p].run <= 1 THEN {} ELSE hist[p][inv[p].run - 1].ids
CountAtStart(p) == IF inv[p].run <= 1 THEN 0 ELSE hist[p][inv[p].run - 1].count

\* C19: with one caller and no other writer, at every point of an invocation
\* total_added is the number of ids the collection holds now and did not hold when
\* the invocation started, it is the number of ids its successful inserts carried
\* (updates add nothing to it), and the count of a call that returns is the record
\* count after the call minus the record count before it.
C19_AddedIsNetGrowth ==
    \A p \in active :
        LET f == inv[p]
        IN f.pc # "idle" =>
              /\ f.total_added = Cardinality(Ids(collection) \ IdsAtStart(p))
              /\ f.total_added = Cardinality(Inserted(f))
              /\ f.pc = "done" /\ f.raised = "none" =>
                    /\ hist[p][f.run].total_added = f.total_added
                    /\ f.total_added = Cardinality(collection) - CountAtStart(p)

C19_Witness ==
    /\ inv[1].pc = "done"
    /\ inv[1].raised = "none"
    /\ inv[1].run = 1
    /\ req[1].paths = <<"d.csv", "a.txt">>
    /\ csv_rows > CSV_CHUNK_ROWS
    /\ inv[1].total_added > CSV_CHUNK_ROWS
    /\ inv[1].total_added < Len(Sent(Writes(inv[1])))

\* C20: while the discovery loop of a call runs no store operation has been made by
\* it, and a call that ends with NoVectorizableInput has gone through its whole
\* path list, has made no store call (no creation, no existence query, no insert,
\* no update), has opened no input for reading its text, and leaves the collection
\* uncreated and empty as it found it.
C20_NoInputNoStore ==
    \A p \in active :
        LET f == inv[p]
        IN /\ f.pc = "discover" =>
                 /\ f.calls = <<>>
                 /\ f.run = 1 => ~collCreated /\ collection = {}
           /\ f.raised = "NoVectorizableInput" =>
                 /\ f.pc \in {"finally", "done"}
                 /\ f.path_i = Len(req[p].paths) + 1
                 /\ f.calls = <<>>
                 /\ f.decoded = {}
                 /\ f.total_added = 0
                 /\ ~collCreated
                 /\ collection = {}

C20_Witness ==
    /\ inv[1].pc = "done"
    /\ inv[1].raised = "NoVectorizableInput"
    /\ req[1].paths = <<"bad.zip", "odd.gz">>
    /\ inv[1].created # {}
    /\ scratch = {}
    /\ ~collCreated

====
